---- MODULE Spec2Model ----
(***************************************************************************)
(* Model of pkg/rtc/config.go: NewWebRTCConfig (the transport              *)
(* configuration builder), getNAT1to1IPsForConf (the concurrent NAT 1:1    *)
(* resolver) and the interface / IP filters.                               *)
(*                                                                         *)
(* Encoding.  An IP address string is a natural number 1..MaxAddr, the     *)
(* empty string is NoIP.  A CIDR entry of the configuration is a pair      *)
(* <<base, prefixLen>>; it parses iff prefixLen <= AddrBits (the address width).  An entry     *)
(* "external/local" of the NAT list is the pair <<external, local>>, a     *)
(* bare IP entry is the 1-tuple <<ip>>.  A Go map is a set of <<key,       *)
(* value>> pairs written through MapPut.                                   *)
(***************************************************************************)
EXTENDS Integers, Sequences, FiniteSets, TLC

\* ------------------------------------------------------------------ bounds
\* Longest list of local IP addresses the host reports.
MaxLocalIPs == 2
\* Longest include / exclude list of the filter specification.
MaxFilterLen == 2

\* ------------------------------------------------------- program constants
\* externalIP != "" : the empty string.
NoIP == 0
\* time.NewTimer(5 * time.Second)
InitialTimeout == 5
\* timeout.Reset(1 * time.Second)
ResolvedTimeout == 1
\* for i := 0; i < 5; i++ : ports sampled from a configured range.
NumSampledPorts == 5

\* Addresses are 1..MaxAddr: the host's possible local IPs and one address
\* that is never local.
MaxAddr == MaxLocalIPs + 1
Addrs == 1..MaxAddr
Pow2(n) == 2 ^ n
\* Width of an address in bits: CIDR prefix lengths are 0..AddrBits.
AddrBits == CHOOSE b \in 1..MaxAddr : Pow2(b) > MaxAddr /\ Pow2(b - 1) <= MaxAddr
PortModulus == Pow2(16)

\* -------------------------------------------------------------- sequences
Range(seq) == {seq[i] : i \in 1..Len(seq)}
SeqsUpTo(S, n) == UNION {[1..k -> S] : k \in 0..n}
\* All orders in which a Go map iteration can visit the set S.
Orders(S) ==
    {q \in [1..Cardinality(S) -> S] : \A i, j \in 1..Cardinality(S) : i # j => q[i] # q[j]}

\* ------------------------------------------------------------------ Go map
MapValues(m) == {p[2] : p \in m}
MapHas(m, k) == \E p \in m : p[1] = k
\* A buggy store that keeps the old entry of the key.
MapPutKeepOld(m, k, v) == m \cup {<<k, v>>}
\* m[k] = v
MapPut(m, k, v) == {p \in m : p[1] # k} \cup {<<k, v>>}

\* ----------------------------------------------------------------- filters
\* net.ParseCIDR: the entry parses iff its prefix length fits the address.
CIDRParses(e) == e[2] <= AddrBits
MaskAddr(a, plen) == (a \div Pow2(AddrBits - plen)) * Pow2(AddrBits - plen)
\* The *net.IPNet of a parsable entry: the base is masked.  (An unparsable
\* entry yields no net; IPFilterFromConf returns before using it.)
ParseCIDR(e) == IF CIDRParses(e) THEN <<MaskAddr(e[1], e[2]), e[2]>> ELSE <<e[1], e[2]>>
\* (*net.IPNet).Contains
Contains(ipn, ip) == MaskAddr(ip, ipn[2]) = ipn[1]

\* for _, iface := range list { if iface == s { hit } }
RECURSIVE NameInList(_, _)
NameInList(list, s) ==
    IF list = <<>> THEN FALSE
    ELSE IF Head(list) = s THEN TRUE
    ELSE NameInList(Tail(list), s)

\* for _, ipn := range nets { if ipn.Contains(ip) { hit } }
RECURSIVE AnyContains(_, _)
AnyContains(nets, ip) ==
    IF nets = <<>> THEN FALSE
    ELSE IF Contains(Head(nets), ip) THEN TRUE
    ELSE AnyContains(Tail(nets), ip)

\* A filter that lets excludes veto an included name.
InterfaceFilterExcludeFirst(includes, excludes, s) ==
    IF Len(excludes) > 0 /\ NameInList(excludes, s) THEN FALSE
    ELSE IF Len(includes) > 0 THEN NameInList(includes, s)
    ELSE TRUE
\* The closure InterfaceFilterFromConf returns, applied to s.
InterfaceFilter(includes, excludes, s) ==
    IF Len(includes) > 0 THEN NameInList(includes, s)
    ELSE IF Len(excludes) > 0 THEN ~NameInList(excludes, s)
    ELSE TRUE

\* IPFilterFromConf's conversion loop: every entry of both lists must parse.
RECURSIVE AllParse(_)
AllParse(entries) ==
    IF entries = <<>> THEN TRUE
    ELSE IF ~CIDRParses(Head(entries)) THEN FALSE
    ELSE AllParse(Tail(entries))
\* A construction that skips the exclude list when includes are given.
IPFilterConfErrIncludesOnly(includes, excludes) ==
    IF Len(includes) > 0 THEN ~AllParse(includes) ELSE ~AllParse(excludes)
\* err != nil of IPFilterFromConf.
IPFilterConfErr(includes, excludes) ==
    IF ~AllParse(includes) THEN TRUE ELSE ~AllParse(excludes)
ParseAll(entries) == [i \in 1..Len(entries) |-> ParseCIDR(entries[i])]
\* The closure IPFilterFromConf returns (over parsed nets), applied to ip.
IPFilter(includes, excludes, ip) ==
    IF Len(includes) > 0 THEN AnyContains(includes, ip)
    ELSE IF Len(excludes) > 0 THEN ~AnyContains(excludes, ip)
    ELSE TRUE

\* A nil filter function value, and a filter closed over its parsed nets.
NilFilter == [set |-> FALSE, includes |-> <<>>, excludes |-> <<>>]
MkFilter(inc, exc) == [set |-> TRUE, includes |-> inc, excludes |-> exc]
\* ipFilter != nil && !ipFilter(net.ParseIP(ip)) : the local IP is skipped.
Rejected(f, ip) == f.set /\ ~IPFilter(f.includes, f.excludes, ip)


\* ------------------------------------------------------------------- state
VARIABLES
    conf,          \* *config.Config: the fields NewWebRTCConfig and the resolver read
    externalIP,    \* the externalIP hint argument (NoIP: "")
    localIPs,      \* what config.GetLocalIPAddresses reports on this host
    pc,            \* position of NewWebRTCConfig
    ipFilter,      \* var ipFilter func(net.IP) bool
    ifFilter,      \* var ifFilter func(string) bool
    s,             \* webrtc.SettingEngine: what the builder has set on it
    iceServers,    \* c.ICEServers
    nat1to1IPs,    \* var nat1to1IPs []string of NewWebRTCConfig
    udpMux,        \* var udpMux ice.UDPMux of NewWebRTCConfig's outer scope
    tcpListener,   \* var tcpListener *net.TCPListener
    sockets,       \* sockets bound so far
    result,        \* the returned *WebRTCConfig and error
    rpc,           \* position of getNAT1to1IPsForConf
    udpPorts,      \* var udpPorts []int
    probeSt,       \* one probe goroutine per local IP: its state
    probePort,     \* index into udpPorts of the port a running probe tries next
    addrCh,        \* addrCh := make(chan ipmapping, len(localIPs))
    cancelled,     \* cancel() was called on ctx
    firstResloved, \* var firstResloved bool
    natMapping,    \* natMapping := make(map[string]string)
    now,           \* seconds since the timer was created
    deadline,      \* when timeout.C fires
    recvLog,       \* the mappings the collector received, in order
    ret,           \* what getNAT1to1IPsForConf returned
    filterCall     \* the last call of an installed filter closure and its answer

vars == <<conf, externalIP, localIPs, pc, ipFilter, ifFilter, s, iceServers,
          nat1to1IPs, udpMux, tcpListener, sockets, result, rpc, udpPorts,
          probeSt, probePort, addrCh, cancelled, firstResloved, natMapping,
          now, deadline, recvLog, ret, filterCall>>

builderVars == <<pc, ipFilter, ifFilter, s, iceServers, nat1to1IPs, udpMux,
                 tcpListener, sockets, result>>
inputVars == <<conf, externalIP, localIPs>>
probeVars == <<probeSt, probePort, addrCh>>
collectorVars == <<firstResloved, natMapping, now, deadline, recvLog>>

ErrNone == "nil"
ErrForcedTCP == "TCP is forced but not configured"
ErrInvalidCIDR == "invalid CIDR address"
ErrLocalIPs == "GetLocalIPAddresses failed"
ErrPortRange == "SetEphemeralUDPPortRange failed"
ErrUDPBind == "NewMultiUDPMuxFromPort failed"
ErrTCPBind == "ListenTCP failed"

\* The webrtc.SettingEngine after construction (line 75).
NewSettingEngine ==
    [interfaceFilter |-> FALSE, ipFilter |-> FALSE, nat1to1 |-> <<>>,
     portRange |-> FALSE, udpMux |-> FALSE, tcpMux |-> FALSE,
     networkTypes |-> <<>>, lite |-> FALSE]

NoResult == [returned |-> FALSE, ok |-> FALSE, err |-> ErrNone]
NoRet == [ips |-> <<>>, err |-> ErrNone]


\* ------------------------------------------------------------------ inputs
IfNames == {"eth0", "eth1", "lo"}
HostCIDR(a) == <<a, AddrBits>>
BadCIDR == <<0, AddrBits + 1>>

BaseConf ==
    [IfIncludes |-> <<>>, IfExcludes |-> <<>>, IPIncludes |-> <<>>, IPExcludes |-> <<>>,
     UseExternalIP |-> FALSE, NodeIP |-> NoIP, NodeIPAutoGenerated |-> FALSE,
     ForceTCP |-> FALSE, TCPPort |-> 0, UDPPort |-> 0,
     ICEPortRangeStart |-> 0, ICEPortRangeEnd |-> 0,
     UseICELite |-> FALSE, STUNServers |-> <<>>]

\* IP filter specifications used outside the filter specification proper.
SmallIPFilters ==
    {<<<<>>, <<>>>>, <<<<HostCIDR(1)>>, <<>>>>, <<<<>>, <<HostCIDR(1)>>>>,
     <<<<HostCIDR(1)>>, <<HostCIDR(2)>>>>}
BadIPFilters ==
    {<<<<BadCIDR>>, <<>>>>, <<<<>>, <<BadCIDR>>>>, <<<<HostCIDR(1)>>, <<BadCIDR>>>>}
PortConfs == {<<0, 0, 0>>, <<0, 0, 7882>>, <<50000, 50001, 0>>, <<50000, 50001, 7882>>}

\* Every combination of the builder's switches, on a host without local IPs.
BuilderConfs ==
    {[BaseConf EXCEPT !.IPIncludes = f[1], !.IPExcludes = f[2],
                      !.UseExternalIP = u, !.NodeIP = n, !.NodeIPAutoGenerated = a,
                      !.ForceTCP = t, !.TCPPort = tp,
                      !.ICEPortRangeStart = p[1], !.ICEPortRangeEnd = p[2], !.UDPPort = p[3],
                      !.UseICELite = l, !.STUNServers = st] :
        f \in SmallIPFilters \cup BadIPFilters, u \in BOOLEAN, n \in {NoIP, 2},
        a \in BOOLEAN, t \in BOOLEAN, tp \in {0, 7881}, p \in PortConfs,
        l \in BOOLEAN, st \in {<<>>, <<"stun.example:3478">>}}

\* The configurations under which the resolver runs, on every host: every
\* small IP filter with the wildcard port, every port choice without a filter.
ResolverConfs ==
    {[BaseConf EXCEPT !.IPIncludes = f[1], !.IPExcludes = f[2], !.UseExternalIP = TRUE,
                      !.ICEPortRangeStart = p[1], !.ICEPortRangeEnd = p[2], !.UDPPort = p[3]] :
        <<f, p>> \in (SmallIPFilters \X {<<0, 0, 0>>}) \cup ({<<<<>>, <<>>>>} \X PortConfs)}

\* The hosts: local IPs 1..k, in ascending or descending order.
LocalIPLists ==
    UNION {{[i \in 1..k |-> i], [i \in 1..k |-> k + 1 - i]} : k \in 0..MaxLocalIPs}

NoCall == [kind |-> "none", x |-> <<>>, err |-> FALSE, out |-> FALSE]

InitState ==
    /\ pc = "filters"
    /\ ipFilter = NilFilter
    /\ ifFilter = NilFilter
    /\ s = NewSettingEngine
    /\ iceServers = <<>>
    /\ nat1to1IPs = <<>>
    /\ udpMux = FALSE
    /\ tcpListener = FALSE
    /\ sockets = {}
    /\ result = NoResult
    /\ rpc = "idle"
    /\ udpPorts = <<>>
    /\ probeSt = <<>>
    /\ probePort = <<>>
    /\ addrCh = <<>>
    /\ cancelled = FALSE
    /\ firstResloved = FALSE
    /\ natMapping = {}
    /\ now = 0
    /\ deadline = 0
    /\ recvLog = <<>>
    /\ ret = NoRet
    /\ filterCall = NoCall

Init ==
    /\ \/ /\ conf \in BuilderConfs
          /\ externalIP \in {NoIP, 1}
          /\ localIPs = <<>>
       \/ /\ conf \in ResolverConfs
          /\ externalIP = MaxAddr
          /\ localIPs \in LocalIPLists
    /\ InitState


\* ----------------------------------------------------------- NewWebRTCConfig
Fail(e) == [returned |-> TRUE, ok |-> FALSE, err |-> e]

\* Lines 79-97: the interface filter, the IP filter (or its error), mDNS.
BuildFilters ==
    /\ pc = "filters"
    /\ LET hasIf == Len(conf.IfIncludes) # 0 \/ Len(conf.IfExcludes) # 0
           hasIP == Len(conf.IPIncludes) # 0 \/ Len(conf.IPExcludes) # 0
           bad == hasIP /\ IPFilterConfErr(conf.IPIncludes, conf.IPExcludes)
       IN /\ ifFilter' = IF hasIf THEN MkFilter(conf.IfIncludes, conf.IfExcludes)
                         ELSE NilFilter
          /\ ipFilter' = IF hasIP /\ ~bad
                         THEN MkFilter(ParseAll(conf.IPIncludes), ParseAll(conf.IPExcludes))
                         ELSE NilFilter
          /\ s' = [s EXCEPT !.interfaceFilter = hasIf, !.ipFilter = hasIP /\ ~bad]
          /\ result' = IF bad THEN Fail(ErrInvalidCIDR) ELSE result
          /\ pc' = IF bad THEN "failed" ELSE "nat"
    /\ UNCHANGED <<inputVars, iceServers, nat1to1IPs, udpMux, tcpListener, sockets,
                   rpc, udpPorts, probeVars, cancelled, collectorVars, ret, filterCall>>

\* A selection that takes an auto-generated node IP for a fixed one.
NATStrategyAnyNodeIP(cf, ext) ==
    IF ext # NoIP /\ (cf.UseExternalIP \/ cf.NodeIP # NoIP)
    THEN IF cf.UseExternalIP THEN "resolve" ELSE "hint"
    ELSE "none"
\* Lines 101-102, 115: which NAT 1:1 strategy the configuration selects.
NATStrategy(cf, ext) ==
    IF ext # NoIP /\ (cf.UseExternalIP \/ (cf.NodeIP # NoIP /\ ~cf.NodeIPAutoGenerated))
    THEN IF cf.UseExternalIP THEN "resolve" ELSE "hint"
    ELSE "none"

\* Lines 99-103, 115-118: select the strategy; call the resolver or register the hint.
SelectNAT ==
    /\ pc = "nat"
    /\ LET st == NATStrategy(conf, externalIP)
       IN /\ pc' = IF st = "resolve" THEN "resolve" ELSE "net"
          /\ rpc' = IF st = "resolve" THEN "start" ELSE rpc
          /\ s' = IF st = "hint" THEN [s EXCEPT !.nat1to1 = <<<<externalIP>>>>] ELSE s
    /\ UNCHANGED <<inputVars, ipFilter, ifFilter, iceServers, nat1to1IPs, udpMux,
                   tcpListener, sockets, result, udpPorts, probeVars, cancelled,
                   collectorVars, ret, filterCall>>

\* A registration that passes the empty list on instead of the hint.
RegisteredNoFallback(ips, ext) == ips
\* Lines 107-113: what SetNAT1To1IPs receives after the resolver returned ips.
Registered(ips, ext) == IF Len(ips) = 0 THEN <<<<ext>>>> ELSE ips

\* Lines 103-114: the resolver has returned.
RegisterNAT ==
    /\ pc = "resolve"
    /\ rpc = "returned"
    /\ IF ret.err # ErrNone
       THEN /\ result' = Fail(ret.err)
            /\ pc' = "failed"
            /\ UNCHANGED <<s, nat1to1IPs>>
       ELSE /\ s' = [s EXCEPT !.nat1to1 = Registered(ret.ips, externalIP)]
            /\ nat1to1IPs' = ret.ips
            /\ pc' = "net"
            /\ UNCHANGED result
    \* the resolver's frame is gone: its locals no longer exist
    /\ rpc' = "done"
    /\ udpPorts' = <<>>
    /\ probeSt' = <<>>
    /\ probePort' = <<>>
    /\ addrCh' = <<>>
    /\ cancelled' = FALSE
    /\ firstResloved' = FALSE
    /\ natMapping' = {}
    /\ now' = 0
    /\ deadline' = 0
    /\ recvLog' = <<>>
    /\ UNCHANGED <<inputVars, ipFilter, ifFilter, iceServers, udpMux, tcpListener,
                   sockets, ret, filterCall>>

\* Network types that enable UDP also when TCP is forced.
NetworkTypesIgnoreForce(cf) ==
    <<"udp4", "udp6">> \o (IF cf.TCPPort # 0 THEN <<"tcp4", "tcp6">> ELSE <<>>)
\* Lines 126-131, 165-168: the network types the configuration enables.
NetworkTypes(cf) ==
    (IF ~cf.ForceTCP THEN <<"udp4", "udp6">> ELSE <<>>)
    \o (IF cf.TCPPort # 0 THEN <<"tcp4", "tcp6">> ELSE <<>>)

UsesPortRange(cf) == cf.ICEPortRangeStart # 0 /\ cf.ICEPortRangeEnd # 0

\* Lines 120-189: UDP and TCP set-up.  rangeOk, udpOk and tcpOk are the
\* answers of SetEphemeralUDPPortRange, NewMultiUDPMuxFromPort and ListenTCP.
SetupNetwork ==
    /\ pc = "net"
    /\ \E rangeOk, udpOk, tcpOk \in BOOLEAN :
        LET wantRange == ~conf.ForceTCP /\ UsesPortRange(conf)
            wantMux == ~conf.ForceTCP /\ ~UsesPortRange(conf) /\ conf.UDPPort # 0
            wantTCP == conf.TCPPort # 0
            udpFailed == (wantRange /\ ~rangeOk) \/ (wantMux /\ ~udpOk)
            tcpTried == ~udpFailed /\ wantTCP
            tcpFailed == tcpTried /\ ~tcpOk
            noTypes == ~udpFailed /\ ~tcpFailed /\ Len(NetworkTypes(conf)) = 0
        IN /\ sockets' = sockets \cup (IF wantMux /\ udpOk THEN {"udp"} ELSE {})
                                 \cup (IF tcpTried /\ tcpOk THEN {"tcp"} ELSE {})
           /\ s' = [s EXCEPT !.portRange = wantRange /\ rangeOk,
                             !.udpMux = wantMux /\ udpOk,
                             !.tcpMux = tcpTried /\ tcpOk,
                             !.networkTypes = IF udpFailed \/ tcpFailed \/ noTypes
                                              THEN <<>> ELSE NetworkTypes(conf)]
           \* line 151 declares a new udpMux in the inner scope: the outer one stays nil
           /\ udpMux' = udpMux
           /\ tcpListener' = (tcpTried /\ tcpOk)
           /\ result' = IF wantRange /\ ~rangeOk THEN Fail(ErrPortRange)
                        ELSE IF wantMux /\ ~udpOk THEN Fail(ErrUDPBind)
                        ELSE IF tcpFailed THEN Fail(ErrTCPBind)
                        ELSE IF noTypes THEN Fail(ErrForcedTCP)
                        ELSE result
           /\ pc' = IF udpFailed \/ tcpFailed \/ noTypes THEN "failed" ELSE "ice"
    /\ UNCHANGED <<inputVars, ipFilter, ifFilter, iceServers, nat1to1IPs, rpc,
                   udpPorts, probeVars, cancelled, collectorVars, ret, filterCall>>

DefaultStunServers == <<"stun.l.google.com:19302", "stun1.l.google.com:19302">>
\* iceServerForStunServers: one ICE server whose URLs are "stun:" + server.
iceServerForStunServers(servers) ==
    [URLs |-> [i \in 1..Len(servers) |-> <<"stun:", servers[i]>>]]

\* An ICE role step that adds the STUN servers in lite mode too.
ICEServersIgnoreLite(cf) ==
    IF cf.NodeIP = NoIP /\ ~cf.UseExternalIP
    THEN IF Len(cf.STUNServers) > 0
         THEN <<iceServerForStunServers(cf.STUNServers)>>
         ELSE <<iceServerForStunServers(DefaultStunServers)>>
    ELSE <<>>
\* Lines 247-259: c.ICEServers.
ICEServers(cf) ==
    IF cf.UseICELite THEN <<>>
    ELSE IF cf.NodeIP = NoIP /\ ~cf.UseExternalIP
    THEN IF Len(cf.STUNServers) > 0
         THEN <<iceServerForStunServers(cf.STUNServers)>>
         ELSE <<iceServerForStunServers(DefaultStunServers)>>
    ELSE <<>>

\* Lines 191-273: ICE role, and the returned *WebRTCConfig.
SetupICE ==
    /\ pc = "ice"
    /\ s' = [s EXCEPT !.lite = conf.UseICELite]
    /\ iceServers' = ICEServers(conf)
    /\ result' = [returned |-> TRUE, ok |-> TRUE, err |-> ErrNone]
    /\ pc' = "done"
    /\ UNCHANGED <<inputVars, ipFilter, ifFilter, nat1to1IPs, udpMux, tcpListener,
                   sockets, rpc, udpPorts, probeVars, cancelled, collectorVars, ret,
                   filterCall>>


\* ------------------------------------------------------ getNAT1to1IPsForConf
U16(x) == x % PortModulus
\* int(portRangeEnd-portRangeStart): the argument of rand.Intn, a uint16 difference.
PortRangeWidth(cf) == U16(U16(cf.ICEPortRangeEnd) - U16(cf.ICEPortRangeStart) + PortModulus)
\* rand.Intn(n) panics unless n > 0.
SamplingPanics(cf) == UsesPortRange(cf) /\ PortRangeWidth(cf) <= 0
\* Lines 304-314: the port lists udpPorts can become.
PortLists(cf) ==
    IF UsesPortRange(cf)
    THEN [1..NumSampledPorts ->
            {U16(cf.ICEPortRangeStart) + r : r \in 0..(PortRangeWidth(cf) - 1)}]
    ELSE IF cf.UDPPort # 0 THEN {<<cf.UDPPort>>}
    ELSE {<<0>>}

\* A launch loop that ignores the IP filter.
LaunchedUnfiltered(f, ip) == TRUE
\* Lines 319-323: a probe is launched for the local IP unless the filter rejects it.
Launched(f, ip) == ~Rejected(f, ip)

\* A channel of capacity one.
ChanCapSingle(locals) == 1
\* Line 302: the capacity of addrCh.
ChanCap(locals) == Len(locals)

\* Lines 289-346: local IPs, candidate ports, one probe per accepted local IP,
\* the empty map and the 5 s timer.  ipsOk is GetLocalIPAddresses' answer.
ResolveStart ==
    /\ rpc = "start"
    /\ \E ipsOk \in BOOLEAN :
        IF ~ipsOk
        THEN /\ ret' = [ips |-> <<>>, err |-> ErrLocalIPs]
             /\ rpc' = "returned"
             /\ UNCHANGED <<udpPorts, probeVars, collectorVars>>
        ELSE IF SamplingPanics(conf)
        THEN /\ rpc' = "panic"
             /\ UNCHANGED <<udpPorts, probeVars, collectorVars, ret>>
        ELSE /\ udpPorts' \in PortLists(conf)
             /\ probeSt' = [i \in 1..Len(localIPs) |->
                               IF Launched(ipFilter, localIPs[i]) THEN "running"
                               ELSE "skipped"]
             /\ probePort' = [i \in 1..Len(localIPs) |->
                               IF Launched(ipFilter, localIPs[i]) THEN 1 ELSE 0]
             /\ addrCh' = <<>>
             /\ firstResloved' = FALSE
             /\ natMapping' = {}
             /\ now' = 0
             /\ deadline' = InitialTimeout
             /\ recvLog' = <<>>
             /\ rpc' = "collect"
             /\ UNCHANGED ret
    /\ UNCHANGED <<inputVars, builderVars, cancelled, filterCall>>

ProbeActive(i) ==
    /\ rpc \in {"collect", "join"}
    /\ i \in 1..Len(localIPs)
    /\ probeSt[i] = "running"

\* Lines 327, 336-337: GetExternalIP answers ext; the probe sends its one result.
ProbeSuccess(i, ext) ==
    /\ ProbeActive(i)
    /\ Len(addrCh) < ChanCap(localIPs)
    /\ addrCh' = Append(addrCh, <<ext, localIPs[i]>>)
    /\ probeSt' = [probeSt EXCEPT ![i] = "sent"]
    /\ probePort' = [probePort EXCEPT ![i] = 0]
    /\ UNCHANGED <<inputVars, builderVars, rpc, udpPorts, cancelled, collectorVars,
                   ret, filterCall>>

\* A probe that gives up at the first port in use.
ProbePortInUseGivesUp(i) ==
    /\ ProbeActive(i)
    /\ probePort' = [probePort EXCEPT ![i] = 0]
    /\ probeSt' = [probeSt EXCEPT ![i] = "exhausted"]
    /\ UNCHANGED <<inputVars, builderVars, rpc, udpPorts, addrCh, cancelled,
                   collectorVars, ret, filterCall>>

\* Lines 328-332, 339: "address already in use": the next port, if any.
ProbePortInUse(i) ==
    /\ ProbeActive(i)
    /\ IF probePort[i] < Len(udpPorts)
       THEN /\ probePort' = [probePort EXCEPT ![i] = @ + 1]
            /\ UNCHANGED probeSt
       ELSE /\ probePort' = [probePort EXCEPT ![i] = 0]
            /\ probeSt' = [probeSt EXCEPT ![i] = "exhausted"]
    /\ UNCHANGED <<inputVars, builderVars, rpc, udpPorts, addrCh, cancelled,
                   collectorVars, ret, filterCall>>

\* Lines 333-334: any other failure ends the probe.
ProbeFail(i) ==
    /\ ProbeActive(i)
    /\ probeSt' = [probeSt EXCEPT ![i] = "failed"]
    /\ probePort' = [probePort EXCEPT ![i] = 0]
    /\ UNCHANGED <<inputVars, builderVars, rpc, udpPorts, addrCh, cancelled,
                   collectorVars, ret, filterCall>>

\* A collector in which the last writer for an external IP wins.
AcceptLastWins(m, mapping) == MapPut(m, mapping[1], mapping[2])
\* Lines 356-363: the first writer for an external IP wins.
Accept(m, mapping) ==
    IF MapHas(m, mapping[1]) THEN m ELSE MapPut(m, mapping[1], mapping[2])

\* A deadline that is never shortened.
NextDeadlineKeep(first, dl, t) == dl
\* Lines 352-355: the first result re-arms the timer to 1 s from now.
NextDeadline(first, dl, t) == IF ~first THEN t + ResolvedTimeout ELSE dl

\* Lines 351-363: case mapping := <-addrCh.
Receive ==
    /\ rpc = "collect"
    /\ addrCh # <<>>
    /\ addrCh' = Tail(addrCh)
    /\ deadline' = NextDeadline(firstResloved, deadline, now)
    /\ firstResloved' = TRUE
    /\ natMapping' = Accept(natMapping, Head(addrCh))
    /\ recvLog' = Append(recvLog, Head(addrCh))
    /\ UNCHANGED <<inputVars, builderVars, rpc, udpPorts, probeSt, probePort,
                   cancelled, now, ret, filterCall>>

\* One second passes while the collector waits in select.
Tick ==
    /\ rpc = "collect"
    /\ now < deadline
    /\ now' = now + 1
    /\ UNCHANGED <<inputVars, builderVars, rpc, udpPorts, probeVars, cancelled,
                   firstResloved, natMapping, deadline, recvLog, ret, filterCall>>

\* Lines 365-369: case <-timeout.C: break done; cancel().
Timeout ==
    /\ rpc = "collect"
    /\ now >= deadline
    /\ rpc' = "join"
    /\ cancelled' = TRUE
    /\ UNCHANGED <<inputVars, builderVars, udpPorts, probeVars, collectorVars, ret,
                   filterCall>>

\* Lines 377-389: every local IP that is no value of the map is mapped to itself.
RECURSIVE SelfMap(_, _)
SelfMap(locals, m) ==
    IF locals = <<>> THEN m
    ELSE SelfMap(Tail(locals),
                 IF Head(locals) \in MapValues(m) THEN m
                 ELSE MapPut(m, Head(locals), Head(locals)))

\* A resolver that falls back to self-mapping also when nothing was resolved.
FinalMappingAlwaysSelfMap(locals, m) == SelfMap(locals, m)
\* Lines 372-389: nothing resolved: nothing returned; else the self-mapped map.
FinalMapping(locals, m) == IF Cardinality(m) = 0 THEN {} ELSE SelfMap(locals, m)

\* fmt.Sprintf("%s/%s", external, local)
FormatEntry(p) == <<p[1], p[2]>>

\* A join that does not wait for the probes.
WaitReturnsAtOnce(st) == TRUE
\* Line 370: wg.Wait() returns once every launched probe has run its deferred
\* wg.Done() (line 325).
WaitReturns(st) == \A i \in 1..Len(st) : st[i] # "running"

\* Lines 370-395: wg.Wait() is over; the fallback; the list in map order.
Finish ==
    /\ rpc = "join"
    /\ WaitReturns(probeSt)
    /\ LET m == FinalMapping(localIPs, natMapping)
       IN /\ natMapping' = m
          /\ \E order \in Orders(m) :
                ret' = [ips |-> [i \in 1..Len(order) |-> FormatEntry(order[i])],
                        err |-> ErrNone]
    /\ rpc' = "returned"
    /\ UNCHANGED <<inputVars, builderVars, udpPorts, probeVars, cancelled,
                   firstResloved, now, deadline, recvLog, filterCall>>

\* -------------------------------------------------------------- behaviours
Probe ==
    \E i \in 1..MaxLocalIPs :
        \/ \E ext \in Addrs : ProbeSuccess(i, ext)
        \/ ProbePortInUse(i)
        \/ ProbeFail(i)

Next ==
    \/ BuildFilters
    \/ SelectNAT
    \/ ResolveStart
    \/ Probe
    \/ Receive
    \/ Tick
    \/ Timeout
    \/ Finish
    \/ RegisterNAT
    \/ SetupNetwork
    \/ SetupICE

Spec == Init /\ [][Next]_vars

\* Time passes and a timer whose deadline is reached fires (time.NewTimer,
\* line 345): the collector's select is not starved of its timeout case.
SpecLive == Spec /\ WF_vars(Tick) /\ WF_vars(Timeout)


\* ------------------------------------------- the candidate ports, sampled
\* <<ICEPortRangeStart, ICEPortRangeEnd, UDPPort>>: no range, half a range,
\* ranges of one and two ports, start = end, and end < start.
PortRangeConfs ==
    {<<0, 0, 0>>, <<0, 0, 7882>>, <<50000, 0, 7882>>, <<0, 50001, 0>>,
     <<50000, 50001, 7882>>, <<50000, 50002, 0>>,
     <<50000, 50000, 0>>, <<65535, 65535, 7882>>,
     <<65535, 1, 0>>, <<65535, 2, 7882>>}

\* The resolver on a host with at most one local IP, under every port choice.
InitPorts ==
    /\ \E p \in PortRangeConfs :
          conf = [BaseConf EXCEPT !.UseExternalIP = TRUE, !.ICEPortRangeStart = p[1],
                                  !.ICEPortRangeEnd = p[2], !.UDPPort = p[3]]
    /\ externalIP = MaxAddr
    /\ localIPs \in {<<>>, <<1>>}
    /\ InitState

SpecPorts == InitPorts /\ [][Next]_vars


\* ---------------------------------------------------- the filters, called
\* One call of a filter constructor and of the closure it returns per behaviour.
\* Filter specifications: every list pair in which one list has at most one entry.
AllAddrs == 0..(Pow2(AddrBits) - 1)
\* Every parsable block in canonical form, one with host bits set, one unparsable.
FilterCIDRs ==
    {<<MaskAddr(b, l), l>> : b \in AllAddrs, l \in 0..AddrBits}
        \cup {<<Pow2(AddrBits) - 1, 1>>, BadCIDR}
ListPairs(S) ==
    (SeqsUpTo(S, MaxFilterLen) \X SeqsUpTo(S, 1)) \cup (SeqsUpTo(S, 1) \X SeqsUpTo(S, MaxFilterLen))
FilterConfs ==
    {[BaseConf EXCEPT !.IfIncludes = f[1], !.IfExcludes = f[2]] : f \in ListPairs(IfNames)}
        \cup {[BaseConf EXCEPT !.IPIncludes = f[1], !.IPExcludes = f[2]] : f \in ListPairs(FilterCIDRs)}

InitFilter ==
    /\ conf \in FilterConfs
    /\ externalIP = NoIP
    /\ localIPs = <<>>
    /\ InitState

\* InterfaceFilterFromConf(conf.RTC.Interfaces)(x)
CallInterfaceFilter ==
    /\ filterCall = NoCall
    /\ \E x \in IfNames :
        filterCall' = [kind |-> "interface", x |-> <<x>>, err |-> FALSE,
                       out |-> InterfaceFilter(conf.IfIncludes, conf.IfExcludes, x)]
    /\ UNCHANGED <<inputVars, builderVars, rpc, udpPorts, probeVars, cancelled,
                   collectorVars, ret>>

\* filter, err := IPFilterFromConf(conf.RTC.IPs); filter(ip) when err == nil
CallIPFilter ==
    /\ filterCall = NoCall
    /\ \E ip \in AllAddrs :
        filterCall' =
            IF IPFilterConfErr(conf.IPIncludes, conf.IPExcludes)
            THEN [kind |-> "ip", x |-> <<ip>>, err |-> TRUE, out |-> FALSE]
            ELSE [kind |-> "ip", x |-> <<ip>>, err |-> FALSE,
                  out |-> IPFilter(ParseAll(conf.IPIncludes), ParseAll(conf.IPExcludes), ip)]
    /\ UNCHANGED <<inputVars, builderVars, rpc, udpPorts, probeVars, cancelled,
                   collectorVars, ret>>

NextFilter == CallInterfaceFilter \/ CallIPFilter

SpecFilter == InitFilter /\ [][NextFilter]_vars


\* ------------------------------------------------------------------ claims
\* getNAT1to1IPsForConf has returned a list (no error) to NewWebRTCConfig,
\* which has not yet resumed.
ResolverReturned == pc = "resolve" /\ rpc = "returned" /\ ret.err = ErrNone
\* The resolver has returned after collection (GetLocalIPAddresses had
\* succeeded and the candidate ports were chosen).
Collected == pc = "resolve" /\ rpc = "returned" /\ udpPorts # <<>>
LocalCount(l) == Cardinality({i \in 1..Len(ret.ips) : ret.ips[i][2] = l})

\* C1: after resolution every input local IP is the local part of exactly one
\* entry of the returned list: none is omitted, none appears twice.
C1_EveryLocalIPExactlyOnce ==
    (Collected /\ ret.err = ErrNone)
        => \A k \in 1..Len(localIPs) : LocalCount(localIPs[k]) = 1

\* What of C1 the code keeps: no local IP appears twice, and every local part
\* of an entry is an input local IP.
C1_NoLocalIPTwice ==
    (Collected /\ ret.err = ErrNone)
        => /\ \A k \in 1..Len(localIPs) : LocalCount(localIPs[k]) <= 1
           /\ \A i \in 1..Len(ret.ips) : ret.ips[i][2] \in Range(localIPs)

\* C2: no two entries of the returned list share their external IP.
C2_ExternalIPsUnique ==
    (pc = "resolve" /\ rpc = "returned")
        => \A i, j \in 1..Len(ret.ips) : i # j => ret.ips[i][1] # ret.ips[j][1]

\* Two local IPs resolved to the same external IP, and the list returned
\* holds the first pairing and a self-mapped entry.
C2_Witness ==
    /\ ResolverReturned
    /\ Len(recvLog) = 2
    /\ recvLog[1][1] = recvLog[2][1]
    /\ Len(ret.ips) = 2

\* No probe delivered a result: every launched probe failed or ran out of ports.
AllProbesFailed ==
    /\ Collected
    /\ Len(localIPs) > 0
    /\ recvLog = <<>>
    /\ addrCh = <<>>
    /\ \A i \in 1..Len(localIPs) : probeSt[i] # "sent"

NoneAccepted == \A i \in 1..Len(localIPs) : Rejected(ipFilter, localIPs[i])

\* C4: with no local IP, or every local IP rejected by the IP filter, the
\* resolver returns (nil, nil); NewWebRTCConfig then registers the hint IP
\* alone and goes on to the network step without an error.
C4_NothingDiscoveredFallsBackToHint ==
    /\ [](Collected /\ NoneAccepted => ret = [ips |-> <<>>, err |-> ErrNone])
    /\ [][(Collected /\ NoneAccepted)
            => /\ pc' = "net"
               /\ result' = NoResult
               /\ s'.nat1to1 = <<<<externalIP>>>>
               /\ nat1to1IPs' = <<>>]_vars

\* The builder has resumed with the hint on a host whose every local IP the
\* filter rejects.
C4_Witness ==
    /\ pc = "net"
    /\ rpc = "done"
    /\ Len(localIPs) > 0
    /\ NoneAccepted
    /\ s.nat1to1 = <<<<externalIP>>>>

\* C5: with two local IPs A and B, when the collector received (E, A) before
\* the deadline and nothing for B, the returned entries are exactly
\* {"E/A", "B/B"}.
C5_OnlyTimelyResultsReturned ==
    (ResolverReturned /\ Len(localIPs) = 2 /\ Len(recvLog) = 1)
        => LET E == recvLog[1][1]
               A == recvLog[1][2]
               B == CHOOSE l \in Range(localIPs) : l # A
           IN Range(ret.ips) = {<<E, A>>, <<B, B>>}

\* What of C5 the code keeps: the same, when E is not the other local IP.
C5_OnlyTimelyResultsReturnedDistinct ==
    (ResolverReturned /\ Len(localIPs) = 2 /\ Len(recvLog) = 1)
        => LET E == recvLog[1][1]
               A == recvLog[1][2]
               B == CHOOSE l \in Range(localIPs) : l # A
           IN E # B => Range(ret.ips) = {<<E, A>>, <<B, B>>}

\* The addresses of the block of a parsable CIDR entry.
Block(e) ==
    LET size == Pow2(AddrBits - e[2])
        start == (e[1] \div size) * size
    IN start..(start + size - 1)
InAnyBlock(x, entries) == \E e \in Range(entries) : x \in Block(e)

\* C6: for both filters: with a non-empty include list the filter holds
\* exactly for the members of include, whatever exclude contains; with an
\* empty include list and a non-empty exclude list it holds exactly for the
\* non-members of exclude; with both empty it always holds.
C6_FilterSemantics ==
    /\ filterCall.kind = "interface"
        => LET x == filterCall.x[1]
           IN filterCall.out =
                IF conf.IfIncludes # <<>> THEN x \in Range(conf.IfIncludes)
                ELSE IF conf.IfExcludes # <<>> THEN x \notin Range(conf.IfExcludes)
                ELSE TRUE
    /\ (filterCall.kind = "ip" /\ ~filterCall.err)
        => LET x == filterCall.x[1]
           IN filterCall.out =
                IF conf.IPIncludes # <<>> THEN InAnyBlock(x, conf.IPIncludes)
                ELSE IF conf.IPExcludes # <<>> THEN ~InAnyBlock(x, conf.IPExcludes)
                ELSE TRUE

\* An interface name that is both included and excluded passed the filter.
C6_Witness ==
    /\ filterCall.kind = "interface"
    /\ filterCall.x[1] \in Range(conf.IfIncludes)
    /\ filterCall.x[1] \in Range(conf.IfExcludes)
    /\ filterCall.out

Unparsable(e) == e[2] > AddrBits
HasUnparsable == \E e \in Range(conf.IPIncludes) \cup Range(conf.IPExcludes) : Unparsable(e)

\* C7: an unparsable include or exclude entry makes IPFilterFromConf fail
\* without a filter; NewWebRTCConfig returns that error and no settings,
\* before the resolver runs and before any socket is bound.
C7_InvalidCIDRIsFatal ==
    (HasUnparsable /\ pc # "filters")
        => /\ pc = "failed"
           /\ result = Fail(ErrInvalidCIDR)
           /\ ipFilter = NilFilter
           /\ ~s.ipFilter
           /\ rpc = "idle"
           /\ sockets = {}

\* The build failed on an unparsable exclude entry next to parsable includes.
C7_Witness ==
    /\ pc = "failed"
    /\ conf.IPIncludes # <<>>
    /\ \A e \in Range(conf.IPIncludes) : ~Unparsable(e)
    /\ \E e \in Range(conf.IPExcludes) : Unparsable(e)

ForcedWithoutTCP == conf.ForceTCP /\ conf.TCPPort = 0

\* C8 (as claimed): with ForceTCP and no TCP port NewWebRTCConfig fails with
\* "TCP is forced but not configured" and returns no settings; that error is
\* returned in no other configuration.
C8_ForcedTCPFails ==
    /\ (result.returned /\ ForcedWithoutTCP) => result = Fail(ErrForcedTCP)
    /\ result.err = ErrForcedTCP => ForcedWithoutTCP

\* C8 (amended): with ForceTCP and no TCP port NewWebRTCConfig returns no
\* settings; its error is "TCP is forced but not configured" unless an earlier
\* step failed (an unparsable IP filter entry, or the resolver's error), whose
\* error is returned instead; that error is returned in no other configuration.
C8_ForcedTCPFailsUnlessEarlierError ==
    /\ (result.returned /\ ForcedWithoutTCP)
        => result = Fail(IF HasUnparsable THEN ErrInvalidCIDR
                         ELSE IF ret.err # ErrNone THEN ret.err
                         ELSE ErrForcedTCP)
    /\ result.err = ErrForcedTCP => ForcedWithoutTCP

\* The build failed on forced TCP after the resolver had run.
C8_Witness ==
    /\ result = Fail(ErrForcedTCP)
    /\ rpc = "done"

\* NewWebRTCConfig is past its NAT step.
PastNAT ==
    \/ pc \in {"net", "ice", "done"}
    \/ pc = "failed" /\ result.err \in {ErrPortRange, ErrUDPBind, ErrTCPBind, ErrForcedTCP}
Branch1 == externalIP # NoIP /\ conf.UseExternalIP
Branch2 == ~Branch1 /\ externalIP # NoIP /\ conf.NodeIP # NoIP /\ ~conf.NodeIPAutoGenerated

\* C9: the NAT strategy is a priority of three exclusive branches: with a hint
\* and UseExternalIP the resolver runs and its mappings (or, if none, the hint
\* alone) are registered; else with a hint and a fixed, not auto-generated
\* NodeIP the hint alone is registered and the resolver never runs; otherwise
\* nothing is registered and the resolver never runs.
C9_NATStrategy ==
    /\ rpc # "idle" => Branch1
    /\ PastNAT =>
        IF Branch1
        THEN /\ rpc = "done"
             /\ s.nat1to1 = IF Len(ret.ips) = 0 THEN <<<<externalIP>>>> ELSE ret.ips
        ELSE IF Branch2
        THEN s.nat1to1 = <<<<externalIP>>>>
        ELSE s.nat1to1 = <<>>

\* A hint with an auto-generated NodeIP and no UseExternalIP: nothing registered.
C9_Witness ==
    /\ PastNAT
    /\ externalIP # NoIP
    /\ conf.NodeIP # NoIP
    /\ conf.NodeIPAutoGenerated
    /\ ~conf.UseExternalIP
    /\ s.nat1to1 = <<>>

\* C10: in every returned settings object lite mode and ICE servers exclude
\* each other.
C10_LiteExcludesStunServers ==
    result.ok => /\ s.lite => iceServers = <<>>
                 /\ iceServers # <<>> => ~s.lite

\* Lite mode was returned for a configuration that would otherwise get STUN servers.
C10_Witness ==
    /\ result.ok
    /\ s.lite
    /\ conf.NodeIP = NoIP
    /\ ~conf.UseExternalIP


\* C11: in every state in which getNAT1to1IPsForConf has returned from its
\* collection, every probe it launched has terminated, the deadline has fired
\* and cancellation was signalled; and the step that returns is taken only
\* from a state in which no probe is running, so a slow probe delays it.
C11_NoProbeOutlivesCall ==
    Collected =>
        /\ \A i \in 1..Len(probeSt) : probeSt[i] # "running"
        /\ cancelled
        /\ now >= deadline

\* The call has returned, and a probe it launched sent a result that the
\* collector never read: the probe ended no earlier than the collection.
C11_Witness ==
    /\ Collected
    /\ cancelled
    /\ addrCh # <<>>
    /\ \E i \in 1..Len(probeSt) : probeSt[i] = "sent"


\* The probes that have sent their result.
Senders == {i \in 1..Len(probeSt) : probeSt[i] = "sent"}

\* C12: a probe never blocks on sending its result: while any probe is still
\* running the result channel has a free slot, also after the collector has
\* stopped reading; each probe sends at most one result, so the results
\* buffered and received are as many as the probes that sent, and the
\* buffered ones never exceed the capacity, the number of local IPs.
C12_SendNeverBlocks ==
    /\ Len(addrCh) <= Len(localIPs)
    /\ Len(addrCh) + Len(recvLog) = Cardinality(Senders)
    /\ \A i \in 1..Len(probeSt) :
          probeSt[i] = "running" => Len(addrCh) < ChanCap(localIPs)

\* The collector has stopped, a result sits unread in the channel and
\* another probe is still to send or fail.
C12_Witness ==
    /\ rpc = "join"
    /\ addrCh # <<>>
    /\ \E i \in 1..Len(probeSt) : probeSt[i] = "running"


\* A step in which the collector receives a result.
ReceiveStep == rpc = "collect" /\ Len(recvLog') = Len(recvLog) + 1

\* C13: the adaptive deadline of the collector.  Collection starts with the
\* deadline 5 s after start and keeps it while no result was received; the
\* first receipt moves the deadline to 1 s after that receipt; later receipts
\* and every other step of the collection leave it alone; collection ends
\* only in a step taken exactly at the active deadline, whatever the probes
\* have done; and collection always ends.
C13_AdaptiveDeadline ==
    /\ [](rpc = "collect" /\ ~firstResloved => deadline = InitialTimeout)
    /\ [](rpc = "collect" => now <= deadline)
    /\ [][ReceiveStep =>
            deadline' = IF recvLog = <<>> THEN now + ResolvedTimeout ELSE deadline]_vars
    /\ [][rpc = "collect" /\ rpc' = "collect" /\ ~ReceiveStep => deadline' = deadline]_vars
    /\ [][rpc = "collect" /\ rpc' # "collect" =>
            /\ rpc' = "join"
            /\ now = deadline
            /\ deadline' = deadline
            /\ ~firstResloved => now = InitialTimeout]_vars
    /\ (rpc = "collect" ~> rpc = "join")

\* Collection ended before the initial 5 s because of the first of two
\* received results.
C13_Witness ==
    /\ rpc = "join"
    /\ Len(recvLog) >= 2
    /\ now < InitialTimeout
    /\ now = deadline


\* The j-th received result is the first one received for its external IP.
FirstWriter(j) == \A k \in 1..(j - 1) : recvLog[k][1] # recvLog[j][1]

\* C14: deduplication is first-writer-wins in receive order.  During the
\* collection the map holds, for each external IP received, the local IP of
\* the first result received for it and nothing else; and once the call has
\* returned, the local IP of every later result for an external IP already
\* recorded is self-mapped in the returned list.
C14_FirstWriterWins ==
    /\ rpc \in {"collect", "join"} =>
          natMapping = {recvLog[j] : j \in {k \in 1..Len(recvLog) : FirstWriter(k)}}
    /\ Collected =>
          \A j \in 1..Len(recvLog) :
              ~FirstWriter(j) => <<recvLog[j][2], recvLog[j][2]>> \in Range(ret.ips)

\* Two local IPs resolved to the same external IP; the second one received
\* is returned self-mapped and the first one keeps the external IP.
C14_Witness ==
    /\ Collected
    /\ Len(recvLog) >= 2
    /\ recvLog[1][1] = recvLog[2][1]
    /\ recvLog[1] \in Range(ret.ips)
    /\ <<recvLog[2][2], recvLog[2][2]>> \in Range(ret.ips)


\* A step of probe i: its state or the port it is at changes while the
\* resolver is collecting or joining.
ProbeStep(i) ==
    /\ rpc' \in {"collect", "join"}
    /\ <<probeSt'[i], probePort'[i]>> # <<probeSt[i], probePort[i]>>

\* C15: each probe tries its ports in list order.  A step of a probe is one
\* of: a success, which sends exactly one result for its local IP and stops
\* it; "address already in use", which moves it to the next port of the
\* list; another failure, which stops it without a send; exhaustion after
\* the last port, which stops it without a send.  A stopped probe takes no
\* further step, no step of one probe changes another probe, and a
\* resolution that launched its probes returns no error.
C15_ProbePortLoop ==
    /\ [](\A i \in 1..Len(probeSt) :
            probeSt[i] = "running" => probePort[i] \in 1..Len(udpPorts))
    /\ [][\A i \in 1..Len(probeSt) : ProbeStep(i) =>
            /\ probeSt[i] = "running"
            /\ \A j \in 1..Len(probeSt) \ {i} :
                  probeSt'[j] = probeSt[j] /\ probePort'[j] = probePort[j]
            /\ \/ /\ probeSt'[i] = "sent"
                  /\ \E ext \in Addrs : addrCh' = Append(addrCh, <<ext, localIPs[i]>>)
               \/ /\ probeSt'[i] = "running"
                  /\ probePort'[i] = probePort[i] + 1
                  /\ addrCh' = addrCh
               \/ /\ probeSt'[i] = "failed"
                  /\ addrCh' = addrCh
               \/ /\ probeSt'[i] = "exhausted"
                  /\ probePort[i] = Len(udpPorts)
                  /\ addrCh' = addrCh]_vars
    /\ [](Collected => ret.err = ErrNone)

\* One probe failed or ran out of ports, the other one sent its result, and the
\* resolution returned that result without an error.
C15_Witness ==
    /\ Collected
    /\ ret.err = ErrNone
    /\ ret.ips # <<>>
    /\ \E i, j \in 1..Len(probeSt) : probeSt[i] \in {"failed", "exhausted"} /\ probeSt[j] = "sent"


\* The candidate ports are chosen and the probes may use them.
PortsChosen == rpc \in {"collect", "join", "returned"} /\ udpPorts # <<>>
\* Port p lies in the range from a to b, a range with b < a running through
\* the last 16-bit port to the first one.
InPortRange(p, a, b) ==
    IF a <= b THEN p \in a..b ELSE p \in a..(PortModulus - 1) \/ p \in 0..b

\* C16: the candidate UDP ports.  With both range ends non-zero the sampling
\* completes and gives exactly 5 ports, each a 16-bit port within the range
\* from start to end, also for start = end and for end < start; else with a
\* UDP port the list is that port alone; else it is port 0 alone.
C16_CandidatePorts ==
    /\ rpc # "panic"
    /\ PortsChosen =>
          IF conf.ICEPortRangeStart # 0 /\ conf.ICEPortRangeEnd # 0
          THEN /\ Len(udpPorts) = NumSampledPorts
               /\ \A k \in 1..Len(udpPorts) :
                     /\ udpPorts[k] \in 0..(PortModulus - 1)
                     /\ InPortRange(udpPorts[k], conf.ICEPortRangeStart, conf.ICEPortRangeEnd)
          ELSE IF conf.UDPPort # 0 THEN udpPorts = <<conf.UDPPort>>
          ELSE udpPorts = <<0>>

\* The same for the ranges with start < end only, where the sampled ports lie
\* between start and end - 1.
C16_CandidatePortsProperRange ==
    conf.ICEPortRangeStart # 0 /\ conf.ICEPortRangeEnd # 0
        /\ conf.ICEPortRangeStart < conf.ICEPortRangeEnd =>
            /\ rpc # "panic"
            /\ PortsChosen =>
                  /\ Len(udpPorts) = NumSampledPorts
                  /\ \A k \in 1..Len(udpPorts) :
                        udpPorts[k] \in conf.ICEPortRangeStart..(conf.ICEPortRangeEnd - 1)

\* The sampling panicked on a range with start = end.
C16_PanicReached ==
    rpc = "panic" /\ conf.ICEPortRangeStart = conf.ICEPortRangeEnd

\* A port beyond the 16-bit ports was sampled from a range with end < start.
C16_InvalidPortReached ==
    /\ PortsChosen
    /\ conf.ICEPortRangeEnd < conf.ICEPortRangeStart
    /\ \E k \in 1..Len(udpPorts) : udpPorts[k] >= PortModulus


\* NewWebRTCConfig returned its *WebRTCConfig; its UDPMux field is udpMux.
ConfigReturned == pc = "done" /\ result.ok
\* TCP is not forced, no port range is configured, a UDP port is.
WantsUDPMux == ~conf.ForceTCP /\ ~UsesPortRange(conf) /\ conf.UDPPort # 0

\* C17: in the returned settings the UDPMux field holds the multiplexer that
\* was installed in the setting engine when TCP is not forced, no port range
\* is configured and a UDP port is; in every other configuration it is empty.
C17_ReturnedUDPMux ==
    ConfigReturned =>
        IF WantsUDPMux THEN udpMux /\ udpMux = s.udpMux ELSE ~udpMux

\* What the returned settings do hold: the multiplexer is installed in the
\* setting engine exactly in that configuration, and the UDPMux field is empty.
C17_MuxOnlyInSettingEngine ==
    ConfigReturned => s.udpMux = WantsUDPMux /\ ~udpMux

\* Settings were returned after a multiplexer was bound and installed.
C17_MuxInstalled ==
    ConfigReturned /\ WantsUDPMux /\ s.udpMux /\ "udp" \in sockets


\* A node IP that was explicitly configured, as line 101 understands it.
FixedNodeIP == conf.NodeIP # NoIP /\ ~conf.NodeIPAutoGenerated
\* The populated list: the explicit STUN servers, else the default ones.
StunList ==
    IF Len(conf.STUNServers) > 0
    THEN <<iceServerForStunServers(conf.STUNServers)>>
    ELSE <<iceServerForStunServers(DefaultStunServers)>>

\* C18: in the returned configuration the ICE server list is the explicit
\* STUN list, or the default list when that is empty, if lite-ICE is not
\* requested, UseExternalIP is off and no fixed node IP is configured (an
\* empty or an auto-generated NodeIP not being fixed); otherwise it is empty.
C18_ICEServersUnlessFixedNodeIP ==
    ConfigReturned =>
        iceServers = IF ~conf.UseICELite /\ ~conf.UseExternalIP /\ ~FixedNodeIP
                     THEN StunList ELSE <<>>

\* The same with any non-empty NodeIP, auto-generated or not, counted as set.
C18_ICEServersUnlessNodeIPSet ==
    ConfigReturned =>
        iceServers = IF ~conf.UseICELite /\ ~conf.UseExternalIP /\ conf.NodeIP = NoIP
                     THEN StunList ELSE <<>>

\* A configuration with an auto-generated NodeIP was returned without ICE
\* servers although lite-ICE and UseExternalIP are off.
C18_AutoGeneratedReached ==
    /\ ConfigReturned
    /\ ~conf.UseICELite /\ ~conf.UseExternalIP
    /\ conf.NodeIP # NoIP /\ conf.NodeIPAutoGenerated
    /\ iceServers = <<>>


\* The local IPs the IP filter rejects.
RejectedIPs == {localIPs[i] : i \in {k \in 1..Len(localIPs) : Rejected(ipFilter, localIPs[k])}}
\* One probe was launched for each local IP the filter accepts and none for
\* the others, and no result sent or received names a rejected local IP.
ProbesFollowFilter ==
    PortsChosen =>
        /\ Len(probeSt) = Len(localIPs)
        /\ \A i \in 1..Len(localIPs) :
              probeSt[i] = "skipped" <=> Rejected(ipFilter, localIPs[i])
        /\ \A m \in Range(addrCh) \cup Range(recvLog) : m[2] \notin RejectedIPs

\* C19: a local IP rejected by the IP filter takes no part in the discovery:
\* no probe is launched for it, no result is sent for it, and no entry of the
\* returned list names it as local or as external IP; one probe is launched
\* for every other local IP.
C19_RejectedIPAbsent ==
    /\ ProbesFollowFilter
    /\ Collected =>
          \A r \in RejectedIPs : \A e \in Range(ret.ips) : e[1] # r /\ e[2] # r

\* C19 as the code has it: no probe and no result for a rejected local IP and
\* one probe for every other; in the returned list a rejected local IP is
\* named by its self-mapped entry and by no other entry, and that entry is
\* there whenever the list is not empty.
C19_RejectedIPOnlySelfMapped ==
    /\ ProbesFollowFilter
    /\ Collected =>
          \A r \in RejectedIPs :
              /\ \A e \in Range(ret.ips) : e[1] = r \/ e[2] = r => e = <<r, r>>
              /\ ret.ips # <<>> => <<r, r>> \in Range(ret.ips)

\* The filter rejected one local IP and accepted another, whose result was
\* received; the list returned holds that result and the rejected IP, self-mapped.
C19_Witness ==
    /\ Collected
    /\ \E i, j \in 1..Len(localIPs) :
          /\ probeSt[i] = "skipped" /\ probeSt[j] = "sent"
          /\ <<localIPs[i], localIPs[i]>> \in Range(ret.ips)
          /\ \E e \in Range(ret.ips) : e[2] = localIPs[j] /\ e[1] # e[2]


\* The pairs the collector accepted: the first result received for each
\* external IP.
AcceptedPairs == {recvLog[j] : j \in {k \in 1..Len(recvLog) : FirstWriter(k)}}

\* C20: the self-mapping fallback only adds entries: every pair the collector
\* accepted is in the returned list, unchanged, whatever the order of the
\* local IPs and also when an accepted external IP is equal to a local IP
\* that obtained no mapping.
C20_FallbackOnlyAdds ==
    Collected => \A a \in AcceptedPairs : a \in Range(ret.ips)

\* What the fallback keeps: an accepted pair is in the returned list unless
\* its external IP is a local IP that no accepted pair maps, in which case
\* that local IP's self-mapped entry stands in its place.
C20_FallbackKeepsUnlessKeyIsUnmappedLocal ==
    Collected =>
        \A a \in AcceptedPairs :
            \/ a \in Range(ret.ips)
            \/ /\ a[1] \in Range(localIPs)
               /\ a[1] \notin {b[2] : b \in AcceptedPairs}
               /\ <<a[1], a[1]>> \in Range(ret.ips)

\* An accepted pair whose external IP is another local IP is missing from
\* the returned list.
C20_OverwriteReached ==
    /\ Collected
    /\ \E a \in AcceptedPairs :
          a[1] # a[2] /\ a[1] \in Range(localIPs) /\ a \notin Range(ret.ips)

====
